---- MODULE Spec2Model ----
(***************************************************************************)
(* Model of src/libinput-gestures.c: the setuid/setgid launcher.  main()   *)
(* is one straight-line sequence: setreuid, setregid, format the /proc     *)
(* link, clear exePath, readlink, format "<exe>.py", execv.                *)
(*                                                                         *)
(* Buffers are sequences of bytes (C index i is element i+1).  PATH_MAX is *)
(* scaled down from the platform's 4096 so that every readlink length,     *)
(* including the ones that fill the buffer, is enumerated.                 *)
(***************************************************************************)
EXTENDS Integers, Sequences, FiniteSets, TLC

\* ---------------------------------------------------------------- bounds
\* <limits.h> PATH_MAX, scaled: capacity of linkPath, exePath, scriptPath.
PATH_MAX == 6
\* Longest argument vector enumerated (argc, argv[0] included).
MaxArgs == 2

\* ------------------------------------------------------------- constants
\* The byte memset() stores and C strings end with.
NUL == 0
\* The literal suffix of the format "%s.py": '.', 'p', 'y'.
Suffix == <<46, 112, 121>>
\* The diagnostic printed when readlink fails.
FailMsg == "Failed to get executable path"

\* ---------------------------------------------------------------- inputs
\* User and group ids a process can start with (0 = root, 1000 = a user).
Ids == {0, 1000}
\* Bytes of a path: '/' and 'a'.  A path never holds a NUL.
PathChars == {47, 97}
\* Absolute paths the kernel can report for /proc/<pid>/exe: they start
\* with '/' and readlink delivers at most bufsiz = PATH_MAX bytes of them.
RECURSIVE SeqsOf(_, _)
SeqsOf(S, n) ==
    IF n = 0 THEN {<<>>}
    ELSE {Append(s, c) : s \in SeqsOf(S, n - 1), c \in S}
ExePaths == UNION {{<<47>> \o s : s \in SeqsOf(PathChars, n)} : n \in 0..(PATH_MAX - 1)}
\* Argument vectors: argv[0], the program name, and up to MaxArgs-1
\* further arguments.
ArgStrings == {"--flag", "value"}
ArgVectors ==
    UNION {{<<"prog">> \o s : s \in SeqsOf(ArgStrings, n)} : n \in 0..(MaxArgs - 1)}
\* Process ids getpid() can return.
Pids == {4242}
\* Contents of an uninitialised stack buffer: whatever the stack held, here
\* either all zero bytes or all 'x' bytes.
StaleFill == {NUL, 120}
\* Bytes that lie on the stack directly after exePath, up to the first zero
\* byte there (the stack above main's frame always holds one).
OverreadTails == {<<>>, <<120>>}

VARIABLES
    pc,          \* the statement main() is about to execute, or a terminal state
    ruid, euid,  \* real and effective user id of the process
    rgid, egid,  \* real and effective group id of the process
    start,       \* the credentials and argv the process was started with
    argv,        \* main's argv
    linkPath,    \* char linkPath[PATH_MAX], as the formatted key
    exePath,     \* char exePath[PATH_MAX]
    scriptPath,  \* char scriptPath[PATH_MAX]
    calls,       \* the calls issued so far, each with its return value
    stdout,      \* what was written to standard output
    exitStatus,  \* <<>> while running, <<s>> once main returned s
    execPath,    \* the path string handed to execv, <<>> before
    execArgv     \* the vector handed to execv, <<>> before

vars == <<pc, ruid, euid, rgid, egid, start, argv, linkPath, exePath,
          scriptPath, calls, stdout, exitStatus, execPath, execArgv>>

\* --------------------------------------------------------------- helpers
Min(a, b) == IF a < b THEN a ELSE b

\* A buffer of PATH_MAX bytes all equal to b.
Filled(b) == [i \in 1..PATH_MAX |-> b]

HasNul(buf) == \E i \in 1..Len(buf) : buf[i] = NUL

\* The C string that starts at the beginning of mem: the bytes before the
\* first NUL.  mem must hold a NUL.
StrOf(mem) ==
    LET k == CHOOSE i \in 1..Len(mem) :
                 mem[i] = NUL /\ \A j \in 1..(i - 1) : mem[j] # NUL
    IN  SubSeq(mem, 1, k - 1)

\* What a "%s" conversion reads from buf: the C string in buf, and when buf
\* holds no NUL the read runs on into the bytes after it (tail).
ReadCStr(buf, tail) == StrOf(buf \o tail \o <<NUL>>)

\* readlink(path, buf, bufsiz) on success: copies min(len, bufsiz) bytes of
\* the target into buf, writes no terminator, leaves the rest of buf alone.
ReadlinkCount(target, bufsiz) == Min(Len(target), bufsiz)
ReadlinkWrite(buf, target, bufsiz) ==
    [i \in 1..Len(buf) |->
        IF i <= ReadlinkCount(target, bufsiz) THEN target[i] ELSE buf[i]]

\* snprintf(buf, size, ...) of the formatted string str: stores at most
\* size-1 bytes of it, then a NUL; returns the untruncated length.
SnprintfWrite(buf, size, str) ==
    LET k == Min(Len(str), size - 1)
    IN  [i \in 1..Len(buf) |->
            IF i <= k THEN str[i] ELSE IF i = k + 1 THEN NUL ELSE buf[i]]

\* The return values recorded for the calls of function fn.
CallsOf(fn) == {i \in 1..Len(calls) : calls[i].fn = fn}
Called(fn) == CallsOf(fn) # {}
Returned(fn, r) == \E i \in CallsOf(fn) : calls[i].ret = r
Record(fn, r) == calls' = Append(calls, [fn |-> fn, ret |-> r])

\* ------------------------------------------------------------------ Init
Init ==
    /\ pc = "setreuid"
    /\ ruid \in Ids /\ euid \in Ids
    /\ rgid \in Ids /\ egid \in Ids
    /\ argv \in ArgVectors
    /\ start = [ruid |-> ruid, euid |-> euid, rgid |-> rgid, egid |-> egid,
                argv |-> argv]
    /\ \E b \in StaleFill :
          /\ exePath = Filled(b)
          /\ scriptPath = Filled(b)
    /\ linkPath = <<>>
    /\ calls = <<>>
    /\ stdout = <<>>
    /\ exitStatus = <<>>
    /\ execPath = <<>>
    /\ execArgv = <<>>

\* --------------------------------------------------------------- actions
\* Mutant: setreuid(getuid(), getuid()), a drop to the invoking user.
SetreuidArgsReal == <<ruid, ruid>>
\* The ids setreuid(geteuid(), geteuid()) asks for: <<real, effective>>.
SetreuidArgs == <<euid, euid>>
\* The ids setregid(getegid(), getegid()) asks for.
SetregidArgs == <<egid, egid>>

\* line 9: setreuid(geteuid(), geteuid()); the result is not looked at.
\* The call either installs both ids or fails and changes nothing.
Setreuid ==
    /\ pc = "setreuid"
    /\ \E ok \in BOOLEAN :
          IF ok
          THEN /\ ruid' = SetreuidArgs[1]
               /\ euid' = SetreuidArgs[2]
               /\ Record("setreuid", 0)
          ELSE /\ UNCHANGED <<ruid, euid>>
               /\ Record("setreuid", -1)
    /\ pc' = "setregid"
    /\ UNCHANGED <<rgid, egid, start, argv, linkPath, exePath, scriptPath,
                   stdout, exitStatus, execPath, execArgv>>

\* line 10: setregid(getegid(), getegid()); the result is not looked at.
Setregid ==
    /\ pc = "setregid"
    /\ \E ok \in BOOLEAN :
          IF ok
          THEN /\ rgid' = SetregidArgs[1]
               /\ egid' = SetregidArgs[2]
               /\ Record("setregid", 0)
          ELSE /\ UNCHANGED <<rgid, egid>>
               /\ Record("setregid", -1)
    /\ pc' = "sprintf"
    /\ UNCHANGED <<ruid, euid, start, argv, linkPath, exePath, scriptPath,
                   stdout, exitStatus, execPath, execArgv>>

\* lines 12-14: pid = getpid(); sprintf(linkPath, "/proc/%d/exe", pid).
\* The key is kept as its three parts; it is far shorter than the real
\* PATH_MAX for every pid.
SprintfLinkPath ==
    /\ pc = "sprintf"
    /\ \E pid \in Pids : linkPath' = <<"/proc/", pid, "/exe">>
    /\ pc' = "memset"
    /\ UNCHANGED <<ruid, euid, rgid, egid, start, argv, exePath, scriptPath,
                   calls, stdout, exitStatus, execPath, execArgv>>

\* lines 16-17: memset(exePath, 0, sizeof(exePath)).
MemsetExePath ==
    /\ pc = "memset"
    /\ exePath' = Filled(NUL)
    /\ pc' = "readlink"
    /\ UNCHANGED <<ruid, euid, rgid, egid, start, argv, linkPath, scriptPath,
                   calls, stdout, exitStatus, execPath, execArgv>>

\* The buffer size the code passes to readlink.
ReadlinkBufsiz == PATH_MAX

\* Mutant: readlink's result is not tested.
AfterReadlinkUnchecked(ret) == "snprintf"
\* line 19: the test of readlink's result: -1 leads to the failure branch.
AfterReadlink(ret) == IF ret = -1 THEN "report" ELSE "snprintf"

\* line 19: readlink(linkPath, exePath, PATH_MAX) and the test against -1.
Readlink ==
    /\ pc = "readlink"
    /\ \/ /\ Record("readlink", -1)
          /\ pc' = AfterReadlink(-1)
          /\ UNCHANGED exePath
       \/ \E target \in ExePaths :
             /\ exePath' = ReadlinkWrite(exePath, target, ReadlinkBufsiz)
             /\ Record("readlink", ReadlinkCount(target, ReadlinkBufsiz))
             /\ pc' = AfterReadlink(ReadlinkCount(target, ReadlinkBufsiz))
    /\ UNCHANGED <<ruid, euid, rgid, egid, start, argv, linkPath, scriptPath,
                   stdout, exitStatus, execPath, execArgv>>

\* Mutant: main ends with "return 0" whatever the call returned.
MainReturnZero(ret) ==
    /\ exitStatus' = <<0>>
    /\ pc' = "Failed"
\* main returns ret: the process ends, its parent sees ret modulo 256.
MainReturn(ret) ==
    /\ exitStatus' = <<ret % 256>>
    /\ pc' = "Failed"

\* lines 20-23: printf("Failed to get executable path"); return 1.
ReportFailure ==
    /\ pc = "report"
    /\ stdout' = Append(stdout, FailMsg)
    /\ MainReturn(1)
    /\ UNCHANGED <<ruid, euid, rgid, egid, start, argv, linkPath, exePath,
                   scriptPath, calls, execPath, execArgv>>

\* lines 25-26: snprintf(scriptPath, PATH_MAX, "%s.py", exePath); the
\* result is not looked at.  When exePath holds no NUL the %s reads on
\* past its end into whatever follows it.
SnprintfScriptPath ==
    /\ pc = "snprintf"
    /\ \E tail \in (IF HasNul(exePath) THEN {<<>>} ELSE OverreadTails) :
          LET str == ReadCStr(exePath, tail) \o Suffix
          IN  /\ scriptPath' = SnprintfWrite(scriptPath, PATH_MAX, str)
              /\ Record("snprintf", Len(str))
    /\ pc' = "execv"
    /\ UNCHANGED <<ruid, euid, rgid, egid, start, argv, linkPath, exePath,
                   stdout, exitStatus, execPath, execArgv>>

\* Mutant: execv is handed argv + 1.
ExecvArgvShifted == Tail(argv)
\* The argument vector the code hands to execv.
ExecvArgv == argv

\* line 28: return execv(scriptPath, argv).  On success the image is
\* replaced and nothing returns; on failure execv returns -1, which main
\* returns.
Execv ==
    /\ pc = "execv"
    /\ execPath' = StrOf(scriptPath)
    /\ execArgv' = ExecvArgv
    /\ \/ /\ Record("execv", 0)
          /\ pc' = "ExecReplaced"
          /\ UNCHANGED exitStatus
       \/ /\ Record("execv", -1)
          /\ MainReturn(-1)
    /\ UNCHANGED <<ruid, euid, rgid, egid, start, argv, linkPath, exePath,
                   scriptPath, stdout>>

Next ==
    \/ Setreuid
    \/ Setregid
    \/ SprintfLinkPath
    \/ MemsetExePath
    \/ Readlink
    \/ ReportFailure
    \/ SnprintfScriptPath
    \/ Execv

Spec == Init /\ [][Next]_vars

\* The process is scheduled and every call returns: a statement that can
\* run does run.
FairSpec == Spec /\ WF_vars(Next)

\* ------------------------------------------------- terms of the claims
Terminal == {"ExecReplaced", "Failed"}

\* A credential call reported failure.
CredFailed == Returned("setreuid", -1) \/ Returned("setregid", -1)

\* readlink succeeded; ResolvedLen is the length it delivered, Resolved the
\* bytes it delivered: the resolved self-path.
ResolveOk == Called("readlink") /\ ~Returned("readlink", -1)
ResolvedLen == calls[CHOOSE i \in CallsOf("readlink") : TRUE].ret
Resolved == SubSeq(exePath, 1, ResolvedLen)

\* The derived path does not fit PATH_MAX bytes with its terminator.
Overflows == ResolveOk /\ ResolvedLen + Len(Suffix) + 1 > PATH_MAX

\* A failure the launcher detects.
Failure == Returned("readlink", -1) \/ Returned("execv", -1)

\* ---------------------------------------------------------------- claims

\* C1: whenever execv has been called, the real user id equals the
\* effective user id and both equal the effective user id at process start,
\* and likewise for the group ids, whatever setreuid and setregid returned.
C1_DroppedAtExec ==
    Called("execv") =>
        /\ ruid = euid /\ euid = start.euid
        /\ rgid = egid /\ egid = start.egid

C3_FailClosed ==
    CredFailed =>
        /\ ~Called("execv")
        /\ pc # "ExecReplaced"
        /\ (pc = "Failed" => exitStatus # <<0>>)

\* C4: when the resolved path followed by ".py" does not fit PATH_MAX
\* bytes with its terminator, execv is never called.
C4_OverflowIsFatal == Overflows => ~Called("execv")

\* C5: when readlink succeeded, the path handed to execv is the resolved
\* path followed by ".py", byte for byte.
C5_ExactScriptPath ==
    (ResolveOk /\ Called("execv")) => execPath = Resolved \o Suffix

\* C6: argv is never modified, and the vector handed to execv is the
\* vector the launcher was started with, element 0 included.
C6_ArgvForwarded ==
    /\ argv = start.argv
    /\ (Called("execv") => execArgv = start.argv)

C6_Witness ==
    /\ pc = "ExecReplaced"
    /\ Len(start.argv) >= 2
    /\ execArgv = start.argv

\* C7: a run that ended without replacing the image has a non-zero exit
\* status: 1 after a readlink failure, 255 (-1 modulo 256) after an execv
\* failure; no exit status exists in any other state.
C7_ExitStatus ==
    /\ (pc = "Failed" =>
           /\ Len(exitStatus) = 1
           /\ exitStatus[1] # 0
           /\ (Returned("readlink", -1) => exitStatus = <<1>>)
           /\ (Returned("execv", -1) => exitStatus = <<255>>)
           /\ Failure)
    /\ (pc # "Failed" => exitStatus = <<>>)

C7_Witness ==
    /\ pc = "Failed"
    /\ Returned("execv", -1)
    /\ exitStatus = <<255>>

\* C8: no run ends in Failed without a diagnostic having been written.
C8_FailureReported == pc = "Failed" => stdout # <<>>

\* C9: the calls are issued in the order setreuid, setregid, readlink,
\* snprintf, execv, each at most once; execv only after both credential
\* calls and a successful readlink; nothing is called after a detected
\* failure, whose only step is the one into Failed; a terminal state is
\* never left; ExecReplaced and Failed are reached exactly by a successful
\* and a failed run; and every run reaches one of the two.
CallOrder == <<"setreuid", "setregid", "readlink", "snprintf", "execv">>

C9_Order ==
    /\ Len(calls) <= Len(CallOrder)
    /\ \A i \in 1..Len(calls) : calls[i].fn = CallOrder[i]
    /\ (Called("execv") =>
           Called("setreuid") /\ Called("setregid") /\ ResolveOk)
    /\ (Returned("readlink", -1) => ~Called("snprintf") /\ ~Called("execv"))
    /\ (pc = "ExecReplaced" <=> Returned("execv", 0))
    /\ (pc = "Failed" => Failure)

C9_Step ==
    /\ pc \notin Terminal
    /\ (Failure => calls' = calls /\ pc' = "Failed")

C10_Terminated == pc = "snprintf" => HasNul(exePath)
====
